---- MODULE Spec2Model ----
(***************************************************************************)
(* A model of dronelink::DeviceImpl (src/src/device_impl.cpp): one remote  *)
(* endpoint on a MAVLink link.                                             *)
(*                                                                         *)
(* Three threads touch the object without any lock on the command and      *)
(* heartbeat fields:                                                       *)
(*   - the caller thread (send_command, send_command_with_ack,             *)
(*     send_command_with_ack_async),                                       *)
(*   - the dispatch thread (process_heartbeat, process_command_ack,        *)
(*     process_autopilot_version, reached through                          *)
(*     process_mavlink_message),                                           *)
(*   - the loop thread (device_thread), started by the first heartbeat.    *)
(* Every action is one access to the shared fields (or a run of statements *)
(* that touch only fields no other thread writes), so that the             *)
(* interleavings of the unsynchronised code are those of the model.        *)
(*                                                                         *)
(* The timeout registry is the one structure behind a mutex: its           *)
(* operations are critical sections, and check_timeouts (on the loop       *)
(* thread) invokes the callback it took after leaving its own. The handler *)
(* table has no lock; its operations are modelled one at a time.           *)
(***************************************************************************)
EXTENDS Integers, Sequences, FiniteSets, TLC

\* ------------------------------------------------------------------ bounds

\* Sender system ids and component ids of inbound heartbeats: 0..MaxId.
MaxId == 1
\* Unique ids carried by capability reports: 0..MaxUid.
MaxUid == 2
\* Callbacks a caller may pass to send_command_with_ack_async: 1..MaxCallback
\* (0 is nullptr).
MaxCallback == 1
\* iterations = timeout_us / wait_time_us of the blocking wait.
Iterations == 2
\* _heartbeat_timeout_s, in clock ticks.
HeartbeatTimeout == 1
\* heartbeat_multiplier = heartbeat_interval_us / timeout_interval_us.
HeartbeatMultiplier == 2

\* Owners (cookies) of timeout registry entries: 1..MaxCookie.
MaxCookie == 2
\* _timeout_s, in clock ticks.
TimeoutS == 1
\* Calls of register_mavlink_message_handler after construction.
MaxRegistrations == 3

SysIds == 0..MaxId
CompIds == 0..MaxId
Uids == 0..MaxUid
Callbacks == 0..MaxCallback
nullptr == 0
Cookies == 1..MaxCookie
\* Callbacks passed to register_timeout_handler, and the empty
\* timeout_handler_t of line 213.
TimeoutHandlers == {"on_timeout"}
no_handler == "nullptr"
\* Message types and callbacks that other objects register in the handler
\* table; their cookies are Cookies. The constructor's cookie is this.
UserMsgIds == {"ATTITUDE", "STATUSTEXT"}
UserHandlers == {"on_message_a", "on_message_b"}
this == 0

\* MAV_RESULT values an acknowledgement can carry (the constructor's
\* MAV_RESULT_FAILED is "FAILED").
MavResults == {"ACCEPTED", "DENIED"}
\* Capability sets a report can carry; the flag is one bit of the mask.
Capabilities == {{}, {"MISSION_INT"}}

VARIABLES
    \* DeviceImpl's fields
    target_system_id,
    target_component_id,
    target_uuid,
    target_supports_mission_int,
    command_result,
    command_state,
    command_result_callback,
    device_thread,             \* TRUE once the std::thread exists
    hb_elapsed,                \* elapsed_s(_last_heartbeat_received_time), saturating
    heartbeat_timed_out,
    timeout_handler_map,       \* cookie -> [time, callback]; time is the
                               \* deadline minus steady_time(), at least -1
    timeout_handler_map_mutex, \* the thread that holds it, or "-"
    mavlink_handler_table,     \* sequence of [msg_id, callback, cookie]
    \* caller thread: position, callback argument, loop index i, value returned
    cpc, c_callback, c_i, c_ret,
    \* dispatch thread: position, result code of the ack being processed
    dpc, d_result,
    \* loop thread: position, counter of device_thread, the callback copied
    \* by check_timeouts and the cookie of the entry it was copied from
    lpc, l_counter, l_callback, l_cookie,
    \* what the last step did to the outside: the API call entered, the
    \* message dispatched, the message handed to send_message, the value
    \* returned, the callback invoked by report_result, the parent notified,
    \* the Debug() line written, what send_message answered, the arguments
    \* of a registry call, the timeout callback entered, the handler-table
    \* callbacks invoked
    ev,
    \* history variables
    first_hb,                  \* <<sysid, compid>> of the first heartbeat, or <<>>
    id_assigns,                \* times lines 124-125 ran (saturating at 2)
    first_av,                  \* <<uid, flag>> of the first capability report, or <<>>
    av_count,                  \* capability reports processed (saturating at 2)
    uuid_at_av,                \* <<_target_uuid, flag>> before the last report
    uuid_assigns,              \* times lines 167-171 ran (saturating at 2)
    busy_reported,             \* the async call in progress has reported BUSY
    ack_published,             \* line 146 ran since the blocking call's line 316
    published_result,          \* result code of the ack whose line 146 ran last
    gap_notifs,                \* notify_on_timeout calls since the gap began
    gap_checked,               \* a check that began in this gap has returned in it
    l_gap,                     \* the check in progress began in the current gap
    cancelled,                 \* cookies whose unregister_timeout_handler has
                               \* returned, with no register call since
    handler_log                \* every register_mavlink_message_handler call in
                               \* order, with whether its cookie has been
                               \* unregistered since

cmd_vars == <<command_result, command_state, command_result_callback>>
id_vars == <<target_system_id, target_component_id>>
uuid_vars == <<target_uuid, target_supports_mission_int>>
hb_vars == <<device_thread, hb_elapsed, heartbeat_timed_out>>
caller_vars == <<cpc, c_callback, c_i, c_ret>>
dispatch_vars == <<dpc, d_result>>
loop_vars == <<lpc, l_counter>>
id_hist == <<first_hb, id_assigns>>
av_hist == <<first_av, av_count, uuid_at_av, uuid_assigns>>
gap_hist == <<gap_notifs, gap_checked, l_gap>>
ack_hist == <<ack_published, published_result>>
table_vars == <<mavlink_handler_table, handler_log>>
timeout_vars == <<timeout_handler_map, timeout_handler_map_mutex, l_callback,
                  l_cookie, cancelled>>

vars == <<target_system_id, target_component_id, target_uuid,
          target_supports_mission_int, command_result, command_state,
          command_result_callback, device_thread, hb_elapsed,
          heartbeat_timed_out, cpc, c_callback, c_i, c_ret, dpc, d_result,
          lpc, l_counter, ev, first_hb, id_assigns, first_av, av_count,
          uuid_at_av, uuid_assigns, busy_reported, ack_published,
          published_result, gap_notifs, gap_checked, l_gap,
          timeout_handler_map, timeout_handler_map_mutex, l_callback,
          l_cookie, cancelled, mavlink_handler_table, handler_log>>

\* ------------------------------------------------------------------ events

NoEv == [call |-> "-", msg |-> <<"-">>, sent |-> "-", ret |-> <<"-", "-">>,
         report |-> <<"-", nullptr, "-">>, notify |-> <<"-", 0>>, debug |-> "-",
         ok |-> "-", args |-> <<>>, fired |-> <<>>, invoked |-> <<>>]

\* ------------------------------------------------------------ construction

\* lines 30-40: the three handlers the constructor registers.
constructor_handlers ==
    <<[msg_id |-> "HEARTBEAT", callback |-> "process_heartbeat",
       cookie |-> this],
      [msg_id |-> "COMMAND_ACK", callback |-> "process_command_ack",
       cookie |-> this],
      [msg_id |-> "AUTOPILOT_VERSION",
       callback |-> "process_autopilot_version", cookie |-> this]>>

Init ==
    /\ target_system_id = 0
    /\ target_component_id = 0
    /\ target_uuid = 0
    /\ target_supports_mission_int = FALSE
    /\ command_result = "FAILED"
    /\ command_state = "NONE"
    /\ command_result_callback = nullptr
    /\ device_thread = FALSE
    /\ hb_elapsed = HeartbeatTimeout + 1
    /\ heartbeat_timed_out = FALSE
    /\ cpc = "idle" /\ c_callback = nullptr /\ c_i = 0 /\ c_ret = <<"-", "-">>
    /\ dpc = "idle" /\ d_result = "FAILED"
    /\ lpc = "l_193" /\ l_counter = 0
    /\ ev = NoEv
    /\ first_hb = <<>> /\ id_assigns = 0
    /\ first_av = <<>> /\ av_count = 0 /\ uuid_at_av = <<0, FALSE>>
    /\ uuid_assigns = 0
    /\ busy_reported = FALSE
    /\ ack_published = FALSE /\ published_result = "-"
    /\ gap_notifs = 0 /\ gap_checked = FALSE /\ l_gap = FALSE
    /\ timeout_handler_map = <<>>
    /\ timeout_handler_map_mutex = "-"
    /\ l_callback = no_handler /\ l_cookie = 0
    /\ cancelled = {}
    /\ mavlink_handler_table = constructor_handlers
    /\ handler_log = <<>>

\* ------------------------------------------------------------ pure helpers

\* report_result: a null callback is not invoked.
report_result(by, callback, result) ==
    IF callback = nullptr THEN NoEv.report ELSE <<by, callback, result>>

\* send_command's return value when either id is 0 counts as no device
\* (a faulty variant).
send_command_EitherIdZero(sysid, compid, ok) ==
    IF sysid = 0 \/ compid = 0 THEN "NO_DEVICE"
    ELSE IF ~ok THEN "CONNECTION_ERROR"
    ELSE "SUCCESS"

\* send_command's return value for the ids it reads and the transport's answer.
send_command(sysid, compid, ok) ==
    IF sysid = 0 /\ compid = 0 THEN "NO_DEVICE"
    ELSE IF ~ok THEN "CONNECTION_ERROR"
    ELSE "SUCCESS"

\* Whether send_command hands a message to the transport.
send_command_sends(sysid, compid) == ~(sysid = 0 /\ compid = 0)

\* What send_message answered to send_command, "-" when it was not called.
send_message_answer(sysid, compid, ok) ==
    IF ~send_command_sends(sysid, compid) THEN "-"
    ELSE IF ok THEN "true" ELSE "false"

\* ------------------------------------------------------------ caller thread

caller_frame == <<id_vars, uuid_vars, hb_vars, dispatch_vars, loop_vars,
                  id_hist, av_hist, gap_hist, timeout_vars, table_vars>>

\* send_command (lines 278-305), called by the user: fire and forget.
send_command_278 ==
    /\ cpc = "idle"
    /\ \E ok \in BOOLEAN :
         LET ret == send_command(target_system_id, target_component_id, ok) IN
         /\ c_ret' = <<"send_command", ret>>
         /\ ev' = [NoEv EXCEPT
                     !.call = "send_command",
                     !.sent = IF send_command_sends(target_system_id,
                                                    target_component_id)
                              THEN "COMMAND" ELSE "-",
                     !.ok = send_message_answer(target_system_id,
                                                target_component_id, ok),
                     !.ret = <<"send_command", ret>>]
    /\ UNCHANGED <<cmd_vars, cpc, c_callback, c_i, busy_reported,
                   ack_hist, caller_frame>>

\* send_command_with_ack, lines 310-312: the busy check, without it (a faulty variant).
send_command_with_ack_310_NoBusyCheck ==
    /\ cpc = "idle"
    /\ cpc' = "swa_314"
    /\ ev' = [NoEv EXCEPT !.call = "send_command_with_ack"]
    /\ UNCHANGED <<cmd_vars, c_callback, c_i, c_ret, busy_reported,
                   ack_hist, caller_frame>>

\* send_command_with_ack, lines 310-312: the busy check.
send_command_with_ack_310 ==
    /\ cpc = "idle"
    /\ IF command_state = "WAITING"
       THEN /\ cpc' = "idle"
            /\ c_ret' = <<"send_command_with_ack", "BUSY">>
            /\ ev' = [NoEv EXCEPT !.call = "send_command_with_ack",
                                  !.ret = <<"send_command_with_ack", "BUSY">>]
       ELSE /\ cpc' = "swa_314"
            /\ c_ret' = c_ret
            /\ ev' = [NoEv EXCEPT !.call = "send_command_with_ack"]
    /\ UNCHANGED <<cmd_vars, c_callback, c_i, busy_reported, ack_hist,
                   caller_frame>>

\* line 314
send_command_with_ack_314 ==
    /\ cpc = "swa_314"
    /\ command_result_callback' = nullptr
    /\ cpc' = "swa_316"
    /\ ev' = NoEv
    /\ UNCHANGED <<command_result, command_state, c_callback, c_i, c_ret,
                   busy_reported, ack_hist, caller_frame>>

\* line 316
send_command_with_ack_316 ==
    /\ cpc = "swa_316"
    /\ command_state' = "WAITING"
    /\ ack_published' = FALSE
    /\ published_result' = "-"
    /\ cpc' = "swa_318"
    /\ ev' = NoEv
    /\ UNCHANGED <<command_result, command_result_callback, c_callback, c_i,
                   c_ret, busy_reported, caller_frame>>

\* lines 318-321: the send; a failure is returned as it is.
send_command_with_ack_318 ==
    /\ cpc = "swa_318"
    /\ \E ok \in BOOLEAN :
         LET ret == send_command(target_system_id, target_component_id, ok)
             sent == IF send_command_sends(target_system_id,
                                           target_component_id)
                     THEN "COMMAND" ELSE "-"
             answer == send_message_answer(target_system_id,
                                           target_component_id, ok) IN
         IF ret # "SUCCESS"
         THEN /\ cpc' = "idle"
              /\ c_ret' = <<"send_command_with_ack", ret>>
              /\ c_i' = c_i
              /\ ev' = [NoEv EXCEPT !.sent = sent,
                                    !.ok = answer,
                                    !.ret = <<"send_command_with_ack", ret>>]
         ELSE /\ cpc' = "swa_328"
              /\ c_ret' = c_ret
              /\ c_i' = 0
              /\ ev' = [NoEv EXCEPT !.sent = sent, !.ok = answer]
    /\ UNCHANGED <<cmd_vars, c_callback, busy_reported, ack_hist,
                   caller_frame>>

\* lines 328-333: one iteration of the wait (the state read, then usleep).
send_command_with_ack_328 ==
    /\ cpc = "swa_328"
    /\ IF command_state = "RECEIVED"
       THEN /\ cpc' = "swa_335"
            /\ c_i' = c_i
       ELSE /\ c_i' = c_i + 1
            /\ cpc' = IF c_i + 1 < Iterations THEN "swa_328" ELSE "swa_335"
    /\ ev' = NoEv
    /\ UNCHANGED <<cmd_vars, c_callback, c_ret, busy_reported, ack_hist,
                   caller_frame>>

\* line 335: the check after the wait.
send_command_with_ack_335 ==
    /\ cpc = "swa_335"
    /\ cpc' = IF command_state # "RECEIVED" THEN "swa_336" ELSE "swa_341"
    /\ ev' = NoEv
    /\ UNCHANGED <<cmd_vars, c_callback, c_i, c_ret, busy_reported,
                   ack_hist, caller_frame>>

\* lines 336-337, without the reset of line 336 (a faulty variant).
send_command_with_ack_336_NoReset ==
    /\ cpc = "swa_336"
    /\ cpc' = "idle"
    /\ c_i' = 0
    /\ c_ret' = <<"send_command_with_ack", "TIMEOUT">>
    /\ ev' = [NoEv EXCEPT !.ret = <<"send_command_with_ack", "TIMEOUT">>]
    /\ UNCHANGED <<cmd_vars, c_callback, busy_reported, ack_hist,
                   caller_frame>>

\* lines 336-337: the timeout.
send_command_with_ack_336 ==
    /\ cpc = "swa_336"
    /\ command_state' = "NONE"
    /\ cpc' = "idle"
    /\ c_i' = 0
    /\ c_ret' = <<"send_command_with_ack", "TIMEOUT">>
    /\ ev' = [NoEv EXCEPT !.ret = <<"send_command_with_ack", "TIMEOUT">>]
    /\ UNCHANGED <<command_result, command_result_callback, c_callback,
                   busy_reported, ack_hist, caller_frame>>

\* line 341
send_command_with_ack_341 ==
    /\ cpc = "swa_341"
    /\ command_state' = "NONE"
    /\ cpc' = "swa_343"
    /\ c_i' = 0
    /\ ev' = NoEv
    /\ UNCHANGED <<command_result, command_result_callback, c_callback,
                   c_ret, busy_reported, ack_hist, caller_frame>>

\* lines 343-347
send_command_with_ack_343 ==
    /\ cpc = "swa_343"
    /\ LET ret == IF command_result # "ACCEPTED" THEN "COMMAND_DENIED"
                  ELSE "SUCCESS" IN
         /\ c_ret' = <<"send_command_with_ack", ret>>
         /\ ev' = [NoEv EXCEPT !.ret = <<"send_command_with_ack", ret>>]
    /\ cpc' = "idle"
    /\ UNCHANGED <<cmd_vars, c_callback, c_i, busy_reported, ack_hist,
                   caller_frame>>

\* send_command_with_ack_async, lines 354-356: BUSY is reported and the
\* call goes on.
send_command_with_ack_async_354 ==
    /\ cpc = "idle"
    /\ \E callback \in Callbacks :
         /\ c_callback' = callback
         /\ IF command_state = "WAITING"
            THEN /\ ev' = [NoEv EXCEPT
                             !.call = "send_command_with_ack_async",
                             !.report = report_result(
                                 "send_command_with_ack_async", callback, "BUSY")]
                 /\ busy_reported' = TRUE
            ELSE /\ ev' = [NoEv EXCEPT !.call = "send_command_with_ack_async"]
                 /\ busy_reported' = FALSE
    /\ cpc' = "async_358"
    /\ UNCHANGED <<cmd_vars, c_i, c_ret, ack_hist, caller_frame>>

\* lines 358-360: the send, and the report of its failure.
send_command_with_ack_async_358 ==
    /\ cpc = "async_358"
    /\ \E ok \in BOOLEAN :
         LET ret == send_command(target_system_id, target_component_id, ok)
             sent == IF send_command_sends(target_system_id,
                                           target_component_id)
                     THEN "COMMAND" ELSE "-"
             answer == send_message_answer(target_system_id,
                                           target_component_id, ok) IN
         IF ret # "SUCCESS"
         THEN /\ cpc' = "async_362"
              /\ ev' = [NoEv EXCEPT
                          !.sent = sent,
                          !.ok = answer,
                          !.report = report_result(
                              "send_command_with_ack_async", c_callback, ret)]
         ELSE /\ cpc' = "async_370"
              /\ ev' = [NoEv EXCEPT !.sent = sent, !.ok = answer]
    /\ UNCHANGED <<cmd_vars, c_callback, c_i, c_ret, busy_reported,
                   ack_hist, caller_frame>>

\* lines 362-363
send_command_with_ack_async_362 ==
    /\ cpc = "async_362"
    /\ command_state' = "NONE"
    /\ cpc' = "idle"
    /\ c_callback' = nullptr
    /\ c_ret' = <<"send_command_with_ack_async", "void">>
    /\ busy_reported' = FALSE
    /\ ev' = [NoEv EXCEPT !.ret = <<"send_command_with_ack_async", "void">>]
    /\ UNCHANGED <<command_result, command_result_callback, c_i,
                   ack_hist, caller_frame>>

\* lines 366-370
send_command_with_ack_async_370 ==
    /\ cpc = "async_370"
    /\ command_state' = "WAITING"
    /\ cpc' = "async_371"
    /\ ev' = [NoEv EXCEPT !.debug = IF c_callback = nullptr
                                    THEN "Callback is null" ELSE "-"]
    /\ UNCHANGED <<command_result, command_result_callback, c_callback, c_i,
                   c_ret, busy_reported, ack_hist, caller_frame>>

\* lines 371-372
send_command_with_ack_async_371 ==
    /\ cpc = "async_371"
    /\ command_result_callback' = c_callback
    /\ cpc' = "idle"
    /\ c_callback' = nullptr
    /\ c_ret' = <<"send_command_with_ack_async", "void">>
    /\ busy_reported' = FALSE
    /\ ev' = [NoEv EXCEPT !.ret = <<"send_command_with_ack_async", "void">>]
    /\ UNCHANGED <<command_result, command_state, c_i, ack_hist,
                   caller_frame>>

\* The steps of a call in progress, and all the caller's steps.
CallerProgress ==
    \/ send_command_with_ack_314
    \/ send_command_with_ack_316
    \/ send_command_with_ack_318
    \/ send_command_with_ack_328
    \/ send_command_with_ack_335
    \/ send_command_with_ack_336
    \/ send_command_with_ack_341
    \/ send_command_with_ack_343
    \/ send_command_with_ack_async_358
    \/ send_command_with_ack_async_362
    \/ send_command_with_ack_async_370
    \/ send_command_with_ack_async_371

\* -------------------------------------------------------- timeout registry

\* std::map::insert: no effect when the key is already present.
insert(map, cookie, entry) ==
    IF cookie \in DOMAIN map THEN map
    ELSE [c \in DOMAIN map \cup {cookie} |->
            IF c = cookie THEN entry ELSE map[c]]

\* std::map::erase by key or by iterator.
erase(map, cookie) == [c \in DOMAIN map \ {cookie} |-> map[c]]

\* steady_time_in_future(_timeout_s), as time left until the deadline.
steady_time_in_future == TimeoutS

\* register_timeout_handler, lines 80-85, in the critical section.
register_timeout_handler(callback, cookie) ==
    /\ timeout_handler_map_mutex = "-"
    /\ timeout_handler_map' =
         insert(timeout_handler_map, cookie,
                [time |-> steady_time_in_future, callback |-> callback])
    /\ cancelled' = cancelled \ {cookie}

\* update_timeout_handler, lines 90-96.
update_timeout_handler(cookie) ==
    /\ timeout_handler_map_mutex = "-"
    /\ timeout_handler_map' =
         IF cookie \in DOMAIN timeout_handler_map
         THEN [timeout_handler_map EXCEPT
                 ![cookie].time = steady_time_in_future]
         ELSE timeout_handler_map
    /\ cancelled' = cancelled

\* unregister_timeout_handler, lines 101-106.
unregister_timeout_handler(cookie) ==
    /\ timeout_handler_map_mutex = "-"
    /\ timeout_handler_map' =
         IF cookie \in DOMAIN timeout_handler_map
         THEN erase(timeout_handler_map, cookie)
         ELSE timeout_handler_map
    /\ cancelled' = cancelled \cup {cookie}

registry_frame == <<id_vars, uuid_vars, cmd_vars, hb_vars, caller_vars,
                    dispatch_vars, loop_vars, id_hist, av_hist, gap_hist,
                    busy_reported, ack_hist, timeout_handler_map_mutex,
                    l_callback, l_cookie, table_vars>>

\* The three operations called on the caller thread. Each holds the mutex
\* from its first statement to its return, so it is one step, taken when the
\* mutex is free.
caller_register_timeout_handler ==
    /\ cpc = "idle"
    /\ \E callback \in TimeoutHandlers, cookie \in Cookies :
         /\ register_timeout_handler(callback, cookie)
         /\ ev' = [NoEv EXCEPT !.call = "register_timeout_handler",
                               !.args = <<cookie, callback>>]
    /\ UNCHANGED registry_frame

caller_update_timeout_handler ==
    /\ cpc = "idle"
    /\ \E cookie \in Cookies :
         /\ update_timeout_handler(cookie)
         /\ ev' = [NoEv EXCEPT !.call = "update_timeout_handler"]
    /\ UNCHANGED registry_frame

caller_unregister_timeout_handler ==
    /\ cpc = "idle"
    /\ \E cookie \in Cookies :
         /\ unregister_timeout_handler(cookie)
         /\ ev' = [NoEv EXCEPT !.call = "unregister_timeout_handler"]
    /\ UNCHANGED registry_frame

RegistryCall ==
    \/ caller_register_timeout_handler
    \/ caller_update_timeout_handler
    \/ caller_unregister_timeout_handler

\* ------------------------------------------------------------ handler table

\* std::vector::erase(it): the entry at position i is removed and the
\* entries after it move up.
erase_at(table, i) ==
    [k \in 1..(Len(table) - 1) |-> IF k < i THEN table[k] ELSE table[k + 1]]

\* unregister_all_mavlink_message_handlers, lines 65-74, when the iterator
\* is advanced after an erase too (a faulty variant).
RECURSIVE unregister_loop_SkipAfterErase(_, _, _)
unregister_loop_SkipAfterErase(table, it, cookie) ==
    IF it > Len(table) THEN table
    ELSE IF table[it].cookie = cookie
         THEN unregister_loop_SkipAfterErase(erase_at(table, it), it + 1,
                                             cookie)
         ELSE unregister_loop_SkipAfterErase(table, it + 1, cookie)

\* unregister_all_mavlink_message_handlers, lines 65-74: the loop from
\* position it on; erase returns the position of the next entry.
RECURSIVE unregister_loop(_, _, _)
unregister_loop(table, it, cookie) ==
    IF it > Len(table) THEN table
    ELSE IF table[it].cookie = cookie
         THEN unregister_loop(erase_at(table, it), it, cookie)
         ELSE unregister_loop(table, it + 1, cookie)

\* process_mavlink_message, lines 111-115: the callbacks invoked from
\* position it on, in order.
RECURSIVE dispatch_loop(_, _, _)
dispatch_loop(table, it, msgid) ==
    IF it > Len(table) THEN <<>>
    ELSE IF table[it].msg_id = msgid
         THEN <<table[it].callback>> \o dispatch_loop(table, it + 1, msgid)
         ELSE dispatch_loop(table, it + 1, msgid)

table_frame == <<id_vars, uuid_vars, cmd_vars, hb_vars, caller_vars,
                 dispatch_vars, loop_vars, id_hist, av_hist, gap_hist,
                 busy_reported, ack_hist, timeout_vars>>

\* register_mavlink_message_handler, lines 55-61.
register_mavlink_message_handler ==
    /\ cpc = "idle"
    /\ dpc = "idle"
    /\ Len(handler_log) < MaxRegistrations
    /\ \E msg_id \in UserMsgIds, callback \in UserHandlers,
          cookie \in Cookies :
         LET entry == [msg_id |-> msg_id, callback |-> callback,
                       cookie |-> cookie] IN
         /\ mavlink_handler_table' = Append(mavlink_handler_table, entry)
         /\ handler_log' = Append(handler_log,
                                  [entry |-> entry, registered |-> TRUE])
    /\ ev' = [NoEv EXCEPT !.call = "register_mavlink_message_handler"]
    /\ UNCHANGED table_frame

\* unregister_all_mavlink_message_handlers, lines 63-75.
unregister_all_mavlink_message_handlers ==
    /\ cpc = "idle"
    /\ dpc = "idle"
    /\ \E cookie \in Cookies :
         /\ mavlink_handler_table' =
              unregister_loop(mavlink_handler_table, 1, cookie)
         /\ handler_log' =
              [k \in 1..Len(handler_log) |->
                 IF handler_log[k].entry.cookie = cookie
                 THEN [handler_log[k] EXCEPT !.registered = FALSE]
                 ELSE handler_log[k]]
    /\ ev' = [NoEv EXCEPT !.call = "unregister_all_mavlink_message_handlers"]
    /\ UNCHANGED table_frame

\* process_mavlink_message, lines 109-116, for a message of a type the
\* constructor registered no handler for: the callbacks invoked belong to
\* other objects. (Messages of the constructor's three types reach
\* process_heartbeat, process_command_ack and process_autopilot_version
\* below; the constructor's entries are never unregistered before the
\* destructor.)
process_mavlink_message ==
    /\ dpc = "idle"
    /\ \E msgid \in UserMsgIds :
         ev' = [NoEv EXCEPT
                  !.msg = <<msgid>>,
                  !.invoked = dispatch_loop(mavlink_handler_table, 1, msgid)]
    /\ UNCHANGED <<table_frame, table_vars>>

HandlerTableCall ==
    \/ register_mavlink_message_handler
    \/ unregister_all_mavlink_message_handlers

\* ---------------------------------------------------------- dispatch thread

dispatch_frame == <<caller_vars, loop_vars, busy_reported, timeout_vars,
                    table_vars>>

\* process_heartbeat, lines 123-126, without the test of line 123 (a faulty variant).
heartbeat_ids_Overwrite(sysid, compid) == <<sysid, compid>>

\* process_heartbeat, lines 123-126: the ids after a heartbeat from
\* <<sysid, compid>>.
heartbeat_ids(sysid, compid) ==
    IF target_system_id = 0 THEN <<sysid, compid>>
    ELSE <<target_system_id, target_component_id>>

\* process_heartbeat, lines 120-129: the ids, and request_autopilot_version
\* (send_command with the ids just stored; its result is dropped).
process_heartbeat_123 ==
    /\ dpc = "idle"
    /\ \E sysid \in SysIds, compid \in CompIds :
         LET ids == heartbeat_ids(sysid, compid) IN
         /\ target_system_id' = ids[1]
         /\ target_component_id' = ids[2]
         /\ first_hb' = IF first_hb = <<>> THEN <<sysid, compid>> ELSE first_hb
         /\ id_assigns' = IF target_system_id = 0 /\ id_assigns < 2
                          THEN id_assigns + 1 ELSE id_assigns
         /\ ev' = [NoEv EXCEPT
                     !.msg = <<"HEARTBEAT", sysid, compid>>,
                     !.sent = IF target_uuid = 0
                                 /\ send_command_sends(ids[1], ids[2])
                              THEN "REQUEST_AUTOPILOT_CAPABILITIES" ELSE "-"]
    /\ dpc' = "hb_131"
    /\ UNCHANGED <<uuid_vars, cmd_vars, hb_vars, d_result, av_hist,
                   ack_hist, gap_hist, dispatch_frame>>

\* line 131, check_device_thread (lines 179-184): the loop thread starts.
process_heartbeat_131 ==
    /\ dpc = "hb_131"
    /\ device_thread' = TRUE
    /\ dpc' = "hb_133"
    /\ ev' = NoEv
    /\ UNCHANGED <<id_vars, uuid_vars, cmd_vars, hb_elapsed,
                   heartbeat_timed_out, d_result, id_hist, av_hist,
                   ack_hist, gap_hist, dispatch_frame>>

\* line 133: the time of the last heartbeat; a gap, if there was one, ends.
process_heartbeat_133 ==
    /\ dpc = "hb_133"
    /\ hb_elapsed' = 0
    /\ gap_checked' = FALSE
    /\ l_gap' = FALSE
    /\ dpc' = "hb_134"
    /\ ev' = NoEv
    /\ UNCHANGED <<id_vars, uuid_vars, cmd_vars, device_thread,
                   heartbeat_timed_out, d_result, id_hist, av_hist,
                   ack_hist, gap_notifs, dispatch_frame>>

\* line 134: the latch is cleared.
process_heartbeat_134 ==
    /\ dpc = "hb_134"
    /\ heartbeat_timed_out' = FALSE
    /\ dpc' = "idle"
    /\ ev' = NoEv
    /\ UNCHANGED <<id_vars, uuid_vars, cmd_vars, device_thread, hb_elapsed,
                   d_result, id_hist, av_hist, ack_hist, gap_hist,
                   dispatch_frame>>

\* process_command_ack, line 143, without the test of the state (a faulty variant).
process_command_ack_143_NoCheck ==
    /\ dpc = "idle"
    /\ \E result \in MavResults :
         /\ ev' = [NoEv EXCEPT !.msg = <<"COMMAND_ACK", result>>]
         /\ dpc' = "ack_144"
         /\ d_result' = result
    /\ UNCHANGED <<id_vars, uuid_vars, cmd_vars, hb_vars, id_hist, av_hist,
                   ack_hist, gap_hist, dispatch_frame>>

\* process_command_ack, lines 139-143: an ack is ignored unless the state
\* is WAITING.
process_command_ack_143 ==
    /\ dpc = "idle"
    /\ \E result \in MavResults :
         /\ ev' = [NoEv EXCEPT !.msg = <<"COMMAND_ACK", result>>]
         /\ IF command_state = "WAITING"
            THEN /\ dpc' = "ack_144"
                 /\ d_result' = result
            ELSE /\ dpc' = "idle"
                 /\ d_result' = d_result
    /\ UNCHANGED <<id_vars, uuid_vars, cmd_vars, hb_vars, id_hist, av_hist,
                   ack_hist, gap_hist, dispatch_frame>>

\* line 144
process_command_ack_144 ==
    /\ dpc = "ack_144"
    /\ command_result' = d_result
    /\ dpc' = "ack_146"
    /\ ev' = NoEv
    /\ UNCHANGED <<id_vars, uuid_vars, command_state, command_result_callback,
                   hb_vars, d_result, id_hist, av_hist, ack_hist,
                   gap_hist, dispatch_frame>>

\* line 146
process_command_ack_146 ==
    /\ dpc = "ack_146"
    /\ command_state' = "RECEIVED"
    /\ ack_published' = TRUE
    /\ published_result' = d_result
    /\ dpc' = "ack_148"
    /\ ev' = NoEv
    /\ UNCHANGED <<id_vars, uuid_vars, command_result,
                   command_result_callback, hb_vars, d_result, id_hist,
                   av_hist, gap_hist, dispatch_frame>>

\* Lines 144 and 146 are two stores to plain (non-atomic) fields that the
\* caller thread reads without a lock: a data race, for which the language
\* fixes no order in which another thread sees the two stores. The two
\* actions below are the other order: the store of line 146 is seen first.
process_command_ack_146_first ==
    /\ dpc = "ack_144"
    /\ command_state' = "RECEIVED"
    /\ ack_published' = TRUE
    /\ published_result' = d_result
    /\ dpc' = "ack_144_second"
    /\ ev' = NoEv
    /\ UNCHANGED <<id_vars, uuid_vars, command_result,
                   command_result_callback, hb_vars, d_result, id_hist,
                   av_hist, gap_hist, dispatch_frame>>

process_command_ack_144_second ==
    /\ dpc = "ack_144_second"
    /\ command_result' = d_result
    /\ dpc' = "ack_148"
    /\ ev' = NoEv
    /\ UNCHANGED <<id_vars, uuid_vars, command_state, command_result_callback,
                   hb_vars, d_result, id_hist, av_hist, ack_hist,
                   gap_hist, dispatch_frame>>

\* lines 148-156: what the pending callback is told for a result code. Both
\* branches of the source report SUCCESS.
ack_outcome(result) ==
    IF result = "ACCEPTED" THEN "SUCCESS" ELSE "SUCCESS"

\* lines 148-156: the pending callback, if any, is invoked.
process_command_ack_148 ==
    /\ dpc = "ack_148"
    /\ ev' = [NoEv EXCEPT
                !.report = report_result("process_command_ack",
                                         command_result_callback,
                                         ack_outcome(command_result))]
    /\ dpc' = "ack_157"
    /\ UNCHANGED <<id_vars, uuid_vars, cmd_vars, hb_vars, d_result, id_hist,
                   av_hist, ack_hist, gap_hist, dispatch_frame>>

\* line 157
process_command_ack_157 ==
    /\ dpc = "ack_157"
    /\ command_result_callback' = nullptr
    /\ dpc' = "idle"
    /\ d_result' = "FAILED"
    /\ ev' = NoEv
    /\ UNCHANGED <<id_vars, uuid_vars, command_result, command_state, hb_vars,
                   id_hist, av_hist, ack_hist, gap_hist, dispatch_frame>>

\* process_autopilot_version, lines 166-176, without the test of line 166
\* (a faulty variant): every report is stored.
autopilot_version_branch_Always(uid) == "store"

\* process_autopilot_version, lines 166-176: the branch a report with
\* unique id uid takes.
autopilot_version_branch(uid) ==
    IF target_uuid = 0 THEN "store"
    ELSE IF target_uuid # uid THEN "changed"
    ELSE "same"

\* process_autopilot_version, lines 161-177. Only this thread writes the
\* unique id and the flag.
process_autopilot_version ==
    /\ dpc = "idle"
    /\ \E uid \in Uids, capabilities \in Capabilities :
         LET branch == autopilot_version_branch(uid)
             flag == "MISSION_INT" \in capabilities IN
         /\ target_uuid' = IF branch = "store" THEN uid ELSE target_uuid
         /\ target_supports_mission_int' =
                IF branch = "store" THEN flag ELSE target_supports_mission_int
         /\ ev' = [NoEv EXCEPT
                     !.msg = <<"AUTOPILOT_VERSION", uid, flag>>,
                     !.notify = IF branch = "store"
                                THEN <<"notify_on_discover", uid>>
                                ELSE NoEv.notify,
                     !.debug = IF branch = "changed"
                               THEN "Error: UUID changed" ELSE "-"]
         /\ first_av' = IF first_av = <<>> THEN <<uid, flag>> ELSE first_av
         /\ av_count' = IF av_count < 2 THEN av_count + 1 ELSE av_count
         /\ uuid_at_av' = <<target_uuid, target_supports_mission_int>>
         /\ uuid_assigns' = IF branch = "store" /\ uuid_assigns < 2
                            THEN uuid_assigns + 1 ELSE uuid_assigns
    /\ UNCHANGED <<id_vars, cmd_vars, hb_vars, dispatch_vars, id_hist,
                   ack_hist, gap_hist, dispatch_frame>>

\* The steps of a handler in progress.
DispatchProgress ==
    \/ process_heartbeat_131
    \/ process_heartbeat_133
    \/ process_heartbeat_134
    \/ process_command_ack_144
    \/ process_command_ack_146
    \/ process_command_ack_146_first
    \/ process_command_ack_144_second
    \/ process_command_ack_148
    \/ process_command_ack_157

\* -------------------------------------------------------------- loop thread

other_threads == <<id_vars, uuid_vars, cmd_vars, caller_vars, dispatch_vars,
                   id_hist, av_hist, busy_reported, ack_hist, table_vars>>
loop_frame == <<other_threads, timeout_vars>>

InGap == hb_elapsed > HeartbeatTimeout

\* device_thread, lines 193-196: every heartbeat_multiplier-th tick sends a
\* heartbeat (send_heartbeat, lines 203-209); then the liveness check is
\* entered.
device_thread_193 ==
    /\ device_thread
    /\ lpc = "l_193"
    /\ ev' = [NoEv EXCEPT !.sent = IF l_counter % HeartbeatMultiplier = 0
                                   THEN "HEARTBEAT" ELSE "-"]
    /\ l_counter' = (l_counter + 1) % HeartbeatMultiplier
    /\ lpc' = "l_216"
    /\ UNCHANGED <<hb_vars, gap_hist, loop_frame>>

\* check_timeouts, lines 213-216: the mutex is taken.
check_timeouts_216 ==
    /\ lpc = "l_216"
    /\ timeout_handler_map_mutex = "-"
    /\ timeout_handler_map_mutex' = "loop"
    /\ lpc' = "l_218"
    /\ ev' = NoEv
    /\ UNCHANGED <<hb_vars, l_counter, gap_hist, other_threads,
                   timeout_handler_map, l_callback, l_cookie, cancelled>>

\* line 222: the deadline of an entry has passed.
expired(entry) == entry.time < 0

\* lines 218-232: the first entry, in the order of the keys, whose deadline
\* has passed, or 0 when there is none.
first_expired(map) ==
    LET E == {c \in DOMAIN map : expired(map[c])} IN
    IF E = {} THEN 0 ELSE CHOOSE c \in E : \A e \in E : c <= e

\* What the end of the block at line 233 does to the mutex, when the block
\* never ended (a faulty variant).
release_Never(holder) == holder

\* line 233: the lock_guard goes out of scope.
release(holder) == "-"

\* lines 218-233: the scan; the callback of the first expired entry is
\* copied and the entry erased; the mutex is released.
check_timeouts_218 ==
    /\ lpc = "l_218"
    /\ LET cookie == first_expired(timeout_handler_map) IN
       IF cookie # 0
       THEN /\ l_callback' = timeout_handler_map[cookie].callback
            /\ l_cookie' = cookie
            /\ timeout_handler_map' = erase(timeout_handler_map, cookie)
       ELSE /\ l_callback' = no_handler
            /\ l_cookie' = 0
            /\ timeout_handler_map' = timeout_handler_map
    /\ timeout_handler_map_mutex' = release(timeout_handler_map_mutex)
    /\ lpc' = "l_236"
    /\ ev' = NoEv
    /\ UNCHANGED <<hb_vars, l_counter, gap_hist, other_threads, cancelled>>

\* lines 236-238: the copied callback, if any, is entered.
check_timeouts_236 ==
    /\ lpc = "l_236"
    /\ IF l_callback # no_handler
       THEN /\ ev' = [NoEv EXCEPT !.fired = <<l_cookie, l_callback>>]
            /\ lpc' = "l_237"
       ELSE /\ ev' = NoEv
            /\ lpc' = "l_244"
    /\ UNCHANGED <<hb_vars, l_counter, gap_hist, other_threads, timeout_vars>>

\* line 237: the body of the callback, which is the registrant's code: it
\* may call the registry (on this thread) before it returns, or just return.
timeout_callback_237 ==
    /\ lpc = "l_237"
    /\ \/ \E callback \in TimeoutHandlers, cookie \in Cookies :
            register_timeout_handler(callback, cookie)
       \/ \E cookie \in Cookies : update_timeout_handler(cookie)
       \/ \E cookie \in Cookies : unregister_timeout_handler(cookie)
       \/ UNCHANGED <<timeout_handler_map, cancelled>>
    /\ lpc' = "l_244"
    /\ l_callback' = no_handler
    /\ l_cookie' = 0
    /\ ev' = NoEv
    /\ UNCHANGED <<hb_vars, l_counter, gap_hist, other_threads,
                   timeout_handler_map_mutex>>

\* check_heartbeat_timeout, line 244.
heartbeat_overdue == hb_elapsed > HeartbeatTimeout

\* line 244; the check returns (and the thread sleeps, line 199) when the
\* heartbeat is not overdue.
check_heartbeat_timeout_244 ==
    /\ lpc = "l_244"
    /\ IF heartbeat_overdue
       THEN /\ lpc' = "l_245"
            /\ l_gap' = InGap
       ELSE /\ lpc' = "l_193"
            /\ l_gap' = FALSE
    /\ ev' = NoEv
    /\ UNCHANGED <<hb_vars, l_counter, gap_notifs, gap_checked, loop_frame>>

\* line 245: the latch.
check_heartbeat_timeout_245 ==
    /\ lpc = "l_245"
    /\ IF ~heartbeat_timed_out
       THEN /\ lpc' = "l_246"
            /\ UNCHANGED <<gap_checked, l_gap>>
       ELSE /\ lpc' = "l_193"
            /\ gap_checked' = (gap_checked \/ l_gap)
            /\ l_gap' = FALSE
    /\ ev' = NoEv
    /\ UNCHANGED <<hb_vars, l_counter, gap_notifs, loop_frame>>

\* line 246
check_heartbeat_timeout_246 ==
    /\ lpc = "l_246"
    /\ ev' = [NoEv EXCEPT !.notify = <<"notify_on_timeout", target_uuid>>]
    /\ gap_notifs' = IF gap_notifs < 2 THEN gap_notifs + 1 ELSE gap_notifs
    /\ lpc' = "l_247"
    /\ UNCHANGED <<hb_vars, l_counter, gap_checked, l_gap, loop_frame>>

\* line 247, then the sleep of line 199.
check_heartbeat_timeout_247 ==
    /\ lpc = "l_247"
    /\ heartbeat_timed_out' = TRUE
    /\ gap_checked' = (gap_checked \/ l_gap)
    /\ l_gap' = FALSE
    /\ lpc' = "l_193"
    /\ ev' = NoEv
    /\ UNCHANGED <<device_thread, hb_elapsed, l_counter, gap_notifs,
                   loop_frame>>

\* The loop thread's own steps; timeout_callback_237 is the registrant's.
LoopStep ==
    \/ device_thread_193
    \/ check_timeouts_216
    \/ check_timeouts_218
    \/ check_timeouts_236
    \/ check_heartbeat_timeout_244
    \/ check_heartbeat_timeout_245
    \/ check_heartbeat_timeout_246
    \/ check_heartbeat_timeout_247

\* --------------------------------------------------------------- the clock

\* steady_time() advances by one tick; past the heartbeat timeout the
\* elapsed time stays "overdue". A gap begins when the timeout is passed.
\* The time left of every registry entry goes down by one, to -1 (passed).
age(entry) == [entry EXCEPT !.time = IF @ < 0 THEN @ ELSE @ - 1]

Tick ==
    /\ \/ hb_elapsed <= HeartbeatTimeout
       \/ \E c \in DOMAIN timeout_handler_map :
            ~expired(timeout_handler_map[c])
    /\ hb_elapsed' = IF hb_elapsed <= HeartbeatTimeout
                     THEN hb_elapsed + 1 ELSE hb_elapsed
    /\ IF hb_elapsed = HeartbeatTimeout
       THEN /\ gap_notifs' = 0
            /\ gap_checked' = FALSE
            /\ l_gap' = FALSE
       ELSE UNCHANGED gap_hist
    /\ timeout_handler_map' =
         [c \in DOMAIN timeout_handler_map |-> age(timeout_handler_map[c])]
    /\ ev' = NoEv
    /\ UNCHANGED <<device_thread, heartbeat_timed_out, loop_vars,
                   other_threads, timeout_handler_map_mutex, l_callback,
                   l_cookie, cancelled>>

\* ------------------------------------------------------- the specifications

\* Calls the user may start when no call is in progress.
CallerCall ==
    \/ send_command_278
    \/ send_command_with_ack_310
    \/ send_command_with_ack_async_354

\* Messages the transport may deliver when no handler is running.
DispatchMessage ==
    \/ process_heartbeat_123
    \/ process_command_ack_143
    \/ process_autopilot_version

Next ==
    \/ CallerCall
    \/ CallerProgress
    \/ RegistryCall
    \/ HandlerTableCall
    \/ process_mavlink_message
    \/ DispatchMessage
    \/ DispatchProgress
    \/ LoopStep
    \/ timeout_callback_237
    \/ Tick

Spec == Init /\ [][Next]_vars

\* The command protocol: the caller and the dispatch thread, with heartbeats
\* (which establish the identity send_command needs) and acknowledgements.
\* The loop thread writes none of the fields these actions read.
HeartbeatProgress ==
    \/ process_heartbeat_131
    \/ process_heartbeat_133
    \/ process_heartbeat_134

NextCommand ==
    \/ CallerCall
    \/ CallerProgress
    \/ process_heartbeat_123
    \/ process_command_ack_143
    \/ DispatchProgress

SpecCommand == Init /\ [][NextCommand]_vars

\* The identity: heartbeats and capability reports on the dispatch thread.
NextIdentity ==
    \/ process_heartbeat_123
    \/ HeartbeatProgress
    \/ process_autopilot_version
    \/ send_command_278

SpecIdentity == Init /\ [][NextIdentity]_vars

\* Liveness of the link: heartbeats on the dispatch thread, the loop thread
\* and the clock; the timeout registry stays empty.
NextHeartbeat ==
    \/ process_heartbeat_123
    \/ HeartbeatProgress
    \/ LoopStep
    \/ Tick

SpecHeartbeat == Init /\ [][NextHeartbeat]_vars

\* The timeout registry: one heartbeat (which starts the loop thread), the
\* registry's operations on the caller thread, the loop thread and the
\* clock. The registry and the liveness fields are disjoint, so the registry
\* is called once the liveness monitor has come to rest (the heartbeat has
\* timed out and the loss has been notified), which keeps the state space
\* within reach.
FirstHeartbeat ==
    /\ first_hb = <<>>
    /\ process_heartbeat_123
    /\ target_system_id' = MaxId /\ target_component_id' = MaxId

RegistryCallAtRest ==
    /\ heartbeat_timed_out /\ gap_checked /\ gap_notifs = 1
    /\ RegistryCall

NextTimeout ==
    \/ FirstHeartbeat
    \/ HeartbeatProgress
    \/ RegistryCallAtRest
    \/ LoopStep
    \/ timeout_callback_237
    \/ Tick

SpecTimeout == Init /\ [][NextTimeout]_vars

\* The handler table: registrations, removals and dispatches.
NextHandlers ==
    \/ HandlerTableCall
    \/ process_mavlink_message

SpecHandlers == Init /\ [][NextHandlers]_vars

\* ------------------------------------------------------------------ claims

\* C1: at the moment a send_command_with_ack call returns, whatever the
\* outcome, the command state is NONE (Idle).
C1_IdleOnReturn ==
    ev.ret[1] = "send_command_with_ack" => command_state = "NONE"

\* C2: send_command_with_ack entered while the state is WAITING returns
\* BUSY, hands nothing to the transport and leaves the command state, the
\* last result and the pending callback as they were.
C2_BusyWhileWaiting ==
    [][(ev'.call = "send_command_with_ack" /\ command_state = "WAITING")
         => /\ ev'.ret = <<"send_command_with_ack", "BUSY">>
            /\ ev'.sent = "-"
            /\ cpc' = "idle"
            /\ UNCHANGED cmd_vars]_vars

\* C2 witness: a blocking call has just been answered BUSY.
C2_Witness ==
    /\ ev.call = "send_command_with_ack"
    /\ ev.ret = <<"send_command_with_ack", "BUSY">>
    /\ command_state = "WAITING"

\* C3: an ack processed while the state is WAITING tells the pending
\* callback SUCCESS when its result code is ACCEPTED and COMMAND_DENIED
\* otherwise, and the blocking call returns the same.
C3_AckOutcome ==
    LET outcome == IF command_result = "ACCEPTED" THEN "SUCCESS"
                   ELSE "COMMAND_DENIED" IN
    /\ ev.report[1] = "process_command_ack" => ev.report[3] = outcome
    /\ (ev.ret[1] = "send_command_with_ack"
          /\ ev.ret[2] \in {"SUCCESS", "COMMAND_DENIED"}) => ev.ret[2] = outcome

\* C4: once send_command_with_ack_async has reported BUSY, the call hands
\* no command to the transport and writes neither the command state nor
\* the pending callback.
C4_AsyncBusy ==
    [][(busy_reported /\ cpc' # cpc)
         => /\ ev'.sent # "COMMAND"
            /\ UNCHANGED <<command_state, command_result_callback>>]_vars

\* The threads run: a call in progress and a handler in progress take their
\* next step. Whether the user calls again and whether the link delivers a
\* message are not the scheduler's to decide.
FairSpecCommand ==
    /\ SpecCommand
    /\ WF_vars(CallerProgress)
    /\ WF_vars(DispatchProgress)

\* C5: the state WAITING is always left again.
C5_LeavesWaiting ==
    (command_state = "WAITING") ~> (command_state # "WAITING")

\* C6: an ack dispatched while the state is NONE or RECEIVED changes
\* neither the state, the last result nor the pending callback, invokes no
\* callback, and the handler is finished.
C6_AckIgnored ==
    [][(ev'.msg[1] = "COMMAND_ACK" /\ command_state # "WAITING")
         => /\ UNCHANGED cmd_vars
            /\ ev'.report = NoEv.report
            /\ dpc' = "idle"]_vars

\* C6 witness: a second ack has been dispatched while the state was
\* RECEIVED.
C6_Witness ==
    /\ ev.msg[1] = "COMMAND_ACK"
    /\ command_state = "RECEIVED"
    /\ dpc = "idle"

\* C7: when no ack has been published (line 146) by the check that follows
\* the wait, the blocking call takes the timeout branch, which sets the
\* state to NONE and returns TIMEOUT; an ack dispatched after that return
\* changes neither the command fields nor the value returned.
C7_Timeout ==
    [][/\ (cpc = "swa_335" /\ cpc' # cpc /\ ~ack_published)
            => cpc' = "swa_336"
       /\ (cpc = "swa_336" /\ cpc' # cpc)
            => /\ ev'.ret = <<"send_command_with_ack", "TIMEOUT">>
               /\ command_state' = "NONE"
               /\ cpc' = "idle"
       /\ (c_ret = <<"send_command_with_ack", "TIMEOUT">> /\ cpc = "idle"
             /\ ev'.msg[1] = "COMMAND_ACK")
            => /\ UNCHANGED <<cmd_vars, c_ret>>
               /\ dpc' = "idle"]_vars

\* C7 witness: the call has returned TIMEOUT after the whole wait, and an
\* ack has been dispatched since.
C7_Witness ==
    /\ c_ret = <<"send_command_with_ack", "TIMEOUT">>
    /\ cpc = "idle"
    /\ ~ack_published
    /\ ev.msg[1] = "COMMAND_ACK"
    /\ command_state = "NONE"

\* C8: within one gap (the time since the last heartbeat exceeds the
\* timeout) notify_on_timeout is called at most once, and once a check that
\* began in the gap has returned in it, exactly once.
C8_OncePerGap ==
    /\ gap_notifs <= 1
    /\ gap_checked => gap_notifs = 1

\* C9: the ids are assigned once, from the first heartbeat, whatever its
\* sender ids.
C9_IdsFromFirstHeartbeat ==
    first_hb # <<>>
      => /\ <<target_system_id, target_component_id>> = first_hb
         /\ id_assigns = 1

\* C9 amended: the same, when the first heartbeat's system id is not 0.
C9_IdsFromFirstNonZero ==
    (first_hb # <<>> /\ first_hb[1] # 0)
      => /\ <<target_system_id, target_component_id>> = first_hb
         /\ id_assigns = 1

\* C9 witness: a later heartbeat from another sender has been processed.
C9_Witness ==
    /\ first_hb # <<>>
    /\ first_hb[1] # 0
    /\ ev.msg[1] = "HEARTBEAT"
    /\ <<ev.msg[2], ev.msg[3]>> # first_hb

\* C10: the unique id is assigned once, from the first capability report;
\* a later report with another unique id leaves the id and the flag as they
\* were, does not notify and writes the anomaly line.
C10_UuidFromFirstReport ==
    /\ first_av # <<>> => (target_uuid = first_av[1] /\ uuid_assigns = 1)
    /\ (ev.msg[1] = "AUTOPILOT_VERSION" /\ av_count = 2
          /\ ev.msg[2] # uuid_at_av[1])
         => /\ <<target_uuid, target_supports_mission_int>> = uuid_at_av
            /\ ev.notify = NoEv.notify
            /\ ev.debug = "Error: UUID changed"

\* C10 amended: the same, when the first report's unique id is not 0.
C10_UuidFromFirstNonZero ==
    (first_av # <<>> /\ first_av[1] # 0)
      => /\ target_uuid = first_av[1]
         /\ uuid_assigns = 1
         /\ (ev.msg[1] = "AUTOPILOT_VERSION" /\ av_count = 2
               /\ ev.msg[2] # uuid_at_av[1])
              => /\ <<target_uuid, target_supports_mission_int>> = uuid_at_av
                 /\ ev.notify = NoEv.notify
                 /\ ev.debug = "Error: UUID changed"

\* C10 witness: a later report with another unique id has been processed.
C10_Witness ==
    /\ first_av # <<>>
    /\ first_av[1] # 0
    /\ av_count = 2
    /\ ev.msg[1] = "AUTOPILOT_VERSION"
    /\ ev.msg[2] # first_av[1]
    /\ ev.debug = "Error: UUID changed"

\* C13: when the send inside send_command_with_ack_async fails, the supplied
\* callback is invoked exactly once in that call, with that failure (no
\* earlier invocation in the same call), the call returns with the state
\* NONE, and the callback has not been stored as the pending one.
C13_AsyncSendFailure ==
    [][/\ (cpc = "async_358" /\ cpc' = "async_362")
          => /\ ev'.report[3] \in {"NO_DEVICE", "CONNECTION_ERROR"}
                \/ c_callback = nullptr
             /\ busy_reported => c_callback = nullptr
       /\ (cpc = "async_362" /\ cpc' # cpc)
          => /\ cpc' = "idle"
             /\ command_state' = "NONE"
             /\ command_result_callback' = command_result_callback]_vars

\* C14: send_command returns NO_DEVICE and hands nothing to the transport
\* while the stored system id and component id are both the unset value 0
\* (in particular before any heartbeat); otherwise (in particular once a
\* heartbeat with a non-zero system id came first) it hands exactly one
\* command message to the transport and returns CONNECTION_ERROR when the
\* transport answers false and SUCCESS when it answers true; it never
\* changes the command state, result or pending callback.
C14_SendCommand ==
    [][ev'.call = "send_command"
       => /\ IF target_system_id = 0 /\ target_component_id = 0
             THEN /\ ev'.ret = <<"send_command", "NO_DEVICE">>
                  /\ ev'.sent = "-"
                  /\ ev'.ok = "-"
             ELSE /\ ev'.sent = "COMMAND"
                  /\ ev'.ok \in {"true", "false"}
                  /\ ev'.ok = "false"
                     => ev'.ret = <<"send_command", "CONNECTION_ERROR">>
                  /\ ev'.ok = "true"
                     => ev'.ret = <<"send_command", "SUCCESS">>
          /\ first_hb = <<>> => ev'.ret = <<"send_command", "NO_DEVICE">>
          /\ (first_hb # <<>> /\ first_hb[1] # 0) => ev'.sent = "COMMAND"
          /\ UNCHANGED cmd_vars]_vars

\* C14 happens: send_command failed on the transport while another command
\* was waiting for its ack, with only one of the two stored ids non-zero.
C14_Witness ==
    /\ ev.call = "send_command"
    /\ ev.sent = "COMMAND"
    /\ ev.ret = <<"send_command", "CONNECTION_ERROR">>
    /\ command_state = "WAITING"
    /\ command_result_callback # nullptr
    /\ target_component_id = 0

\* What the blocking waiter returns for a result code (lines 343-347).
C17_Outcome(result) ==
    IF result = "ACCEPTED" THEN "SUCCESS" ELSE "COMMAND_DENIED"

C18_WaitingBeforeSend ==
    [][(/\ ev'.msg[1] = "COMMAND_ACK"
        /\ cpc \in {"swa_328", "swa_335", "async_370", "async_371"}
        /\ command_state # "RECEIVED")
       => /\ command_state = "WAITING"
          /\ dpc' = "ack_144"]_vars

\* C19: a pending completion callback is stored only while the state is
\* WAITING: when the state is NONE or RECEIVED the pending callback is empty.
\* Stated for the states in which no call and no handler is in progress,
\* which the claim's "every reachable state" includes.
C19_CallbackOnlyWhileWaiting ==
    (cpc = "idle" /\ dpc = "idle" /\ command_state # "WAITING")
    => command_result_callback = nullptr

\* C20: notify_on_timeout is called only when the time since the last
\* heartbeat exceeds the timeout: never while a heartbeat is being processed
\* (the first one, which starts the loop, included) and never within the
\* timeout after a heartbeat.
C20_LossOnlyAfterTimeout ==
    ev.notify[1] = "notify_on_timeout"
    => /\ hb_elapsed > HeartbeatTimeout
       /\ dpc \notin {"hb_131", "hb_133", "hb_134"}

\* C11: when register_timeout_handler returns, the registry's one entry for
\* the owner is the one of this call, also when the owner already had an
\* entry: its deadline is the time of the call plus the timeout and its
\* callback is the call's.
C11_ReRegisterReplaces ==
    [][ev'.call = "register_timeout_handler"
       => /\ ev'.args[1] \in DOMAIN timeout_handler_map'
          /\ timeout_handler_map'[ev'.args[1]] =
               [time |-> TimeoutS, callback |-> ev'.args[2]]]_vars

\* C12: once unregister_timeout_handler(cookie) has returned, the callback
\* of the entry that was registered for that cookie is not invoked, unless
\* register_timeout_handler is called for the cookie again.
C12_CancelledNeverFired ==
    ev.fired # <<>> => ev.fired[1] \notin cancelled

\* C16: each check_timeouts call copies at most one callback, that of an
\* entry whose deadline has passed, and removes exactly that entry while it
\* holds the mutex; the mutex is released when the scan ends; the callback
\* is invoked only then, once per call, with the mutex free, so a callback
\* that calls the registry is not blocked by its own thread.
C16_OneCallbackOutsideLock ==
    [][/\ (lpc = "l_218" /\ lpc' # lpc)
          => /\ timeout_handler_map_mutex = "loop"
             /\ timeout_handler_map_mutex' = "-"
             /\ lpc' = "l_236"
             /\ IF l_callback' = no_handler
                THEN timeout_handler_map' = timeout_handler_map
                ELSE /\ l_cookie' \in DOMAIN timeout_handler_map
                     /\ timeout_handler_map[l_cookie'].time < 0
                     /\ l_callback' = timeout_handler_map[l_cookie'].callback
                     /\ DOMAIN timeout_handler_map' =
                          DOMAIN timeout_handler_map \ {l_cookie'}
                     /\ \A c \in DOMAIN timeout_handler_map' :
                          timeout_handler_map'[c] = timeout_handler_map[c]
       /\ ev'.fired # <<>>
          => /\ lpc = "l_236" /\ lpc' = "l_237"
             /\ ev'.fired = <<l_cookie, l_callback>>
             /\ timeout_handler_map_mutex = "-"
       /\ lpc' = "l_237" => timeout_handler_map_mutex' # "loop"
       /\ (lpc = "l_237" /\ lpc' # lpc) => lpc' = "l_244"]_vars

\* C16 happens: a callback has just been invoked while another entry whose
\* deadline has passed is still in the registry.
C16_Witness ==
    /\ ev.fired # <<>>
    /\ lpc = "l_237"
    /\ \E c \in DOMAIN timeout_handler_map :
         timeout_handler_map[c].time < 0

\* The callbacks of the registrations of message type msgid whose cookie has
\* not been unregistered since, in the order of the calls.
C15_Registered(msgid) ==
    LET Live(r) == r.registered /\ r.entry.msg_id = msgid
        live == SelectSeq(handler_log, Live) IN
    [k \in 1..Len(live) |-> live[k].entry.callback]

\* C15: a dispatch of a message of type T invokes exactly the callbacks of
\* the entries registered for T and not removed since, once each, in the
\* order they were registered.
C15_DispatchOrder ==
    (ev.msg[1] \in UserMsgIds)
    => ev.invoked = C15_Registered(ev.msg[1])

\* C15 happens: a dispatch invoked the same callback twice (registered twice)
\* and skipped entries of that type whose cookie had been unregistered.
C15_Witness ==
    /\ ev.msg[1] \in UserMsgIds
    /\ Len(ev.invoked) = 2
    /\ ev.invoked[1] = ev.invoked[2]
    /\ \E k \in 1..Len(handler_log) :
         /\ ~handler_log[k].registered
         /\ handler_log[k].entry.msg_id = ev.msg[1]

====
